---- MODULE Spec2Model ----
(***************************************************************************)
(* State-machine model of the arbitrage engine of defi-arbitrage-bot:      *)
(* the scan loop (ArbitrageBot::run / scan_and_execute), the pair scan,    *)
(* the opportunity calculator, the opportunity book (active_opportunities) *)
(* with upsert and expiry, and the executor gate.                          *)
(*                                                                         *)
(* Units.  Time is counted in minutes.  Prices are Decimals counted in     *)
(* thousandths (100000 is 100.000), percentages in hundredths of a percent *)
(* (60 is 0.60%), fee fractions in 1/10000 (10 is 0.001), quantities in    *)
(* whole units and profit amounts in 1/10000 of a unit.                    *)
(***************************************************************************)
EXTENDS Integers, Sequences, FiniteSets, Bags, TLC

VARIABLES
    now,                    \* wall clock (Utc::now()), minutes
    deadline,               \* next deadline of the tokio interval of run()
    ticks,                  \* ticks started so far
    enabled,                \* names of the exchanges enabled in the config
    dry_run,                \* ArbitrageBot.dry_run
    active_opportunities,   \* ArbitrageBot.active_opportunities: key -> opportunity
    db,                     \* bag of the calls the persistence port received
    pc,                     \* position of the scan loop task ("panicked": it died)
    all_pairs,              \* pairs of this tick not scanned yet
    cur,                    \* pair scan in progress: pair, prices, loop indices
    pending,                \* opportunity returned by the calculator, not yet added
    sorted_opportunities,   \* ranking built by execute_opportunities in this tick
    to_execute,             \* selected opportunities not dispatched yet
    log                     \* what this tick did so far, in order

vars == <<now, deadline, ticks, enabled, dry_run,
          active_opportunities, db, pc, all_pairs, cur, pending,
          sorted_opportunities, to_execute, log>>

----------------------------------------------------------------------------
(* Bounds of the model *)

MaxTicks == 2
MaxTime == 6
MaxRunTime == 10
IdCycle == 2
UniDepth == 2

(* Program constants *)

ExpiryMinutes == 5
DefaultMaxTradeAmount == 1000
BinanceTakerFee == 10
UniswapTakerFee == 30
UniswapLevelStep == 100

(* Configuration record (config.trading, config.exchanges) *)

min_profit_threshold == 50
max_slippage_pct == 1
check_interval == 5
max_trade_amount == 40
max_concurrent_trades == 1

----------------------------------------------------------------------------
(* Data model *)

Exchanges == {"binance", "uniswap"}

TradingPair_new(base, quote) ==
    [base |-> base, quote |-> quote, symbol |-> base \o "/" \o quote]

\* config.exchanges[name].trading_pairs, parsed.
trading_pairs(exchange) ==
    IF exchange = "binance"
    THEN {TradingPair_new("WETH", "USDC"), TradingPair_new("BNB", "USDC")}
    ELSE {TradingPair_new("WETH", "USDC")}

\* UniswapExchange::get_token_address knows these symbols.
TokenTable == {"USDC", "USDT", "DAI", "WETH", "WBTC"}

NoPair == TradingPair_new("", "")

Statuses == {"Active", "Executed", "Expired", "Failed"}

Min(a, b) == IF a <= b THEN a ELSE b

Range(s) == {s[i] : i \in 1..Len(s)}

\* All orders in which a finite set can be iterated (HashMap / HashSet order).
Orders(S) == {s \in [1..Cardinality(S) -> S] : Range(s) = S}

----------------------------------------------------------------------------
(* Venue adapters: what a call can return *)

\* What a failed adapter call returns (Err(_)).
Failed == [failed |-> TRUE]

\* BinanceExchange::get_price: bid and ask as the ticker gives them, unchecked:
\* a regular quote, a crossed quote (bid > ask) and the all-zero quote of a
\* symbol without orders.
BinanceQuotes ==
    {[bid |-> 103000, ask |-> 103100], [bid |-> 103000, ask |-> 98732],
     [bid |-> 0, ask |-> 0]}

\* Prices a constant-product quotation of the router can come to.
UniswapPrices == {100000, 102000}

\* UniswapExchange: bid = ask * 0.997.
UniswapBid(ask) == (ask * 997) \div 1000

\* UniswapExchange::get_price.
UniswapQuotes == {[bid |-> UniswapBid(a), ask |-> a] : a \in UniswapPrices}

get_price(exchange) ==
    IF exchange = "binance" THEN BinanceQuotes ELSE UniswapQuotes

\* BinanceExchange::get_order_book: the levels of the depth response, in order.
BinanceBooks ==
    {[bids |-> <<[price |-> 103000, quantity |-> 30], [price |-> 101000, quantity |-> 20],
                 [price |-> 99000, quantity |-> 200]>>,
      asks |-> <<[price |-> 98732, quantity |-> 5], [price |-> 99500, quantity |-> 50],
                 [price |-> 104000, quantity |-> 100]>>],
     [bids |-> << >>, asks |-> << >>]}

\* floor(a * b / c), computed without a product larger than b * c.
muldiv(a, b, c) == (a \div c) * b + ((a % c) * b) \div c

\* Pools the router can quote from.  reserve_base counts lots of
\* UniswapLevelStep base units, reserve_quote tenths of a quote unit, so that
\* the amount out for i lots, divided by i, is a price in thousandths.
Pools ==
    {[reserve_base |-> 500, reserve_quote |-> 50150000],
     [reserve_base |-> 500, reserve_quote |-> 51150000],
     [reserve_base |-> 50, reserve_quote |-> 5200000]}

\* The router's getAmountsOut for one hop: constant product, 0.3% fee.
get_amounts_out(amount_in, pool) ==
    muldiv(pool.reserve_quote, amount_in * 997,
           pool.reserve_base * 1000 + amount_in * 997)

\* UniswapExchange::get_order_book: level i quotes i * 100 base units and
\* reports quote_amount / quantity as its price; a level whose quotation failed
\* (i not in answered) is left out.
UniswapBookOf(pool, answered) ==
    LET price(i) == get_amounts_out(i, pool) \div i
        lvl(i) == [price |-> price(i), quantity |-> i * UniswapLevelStep]
        bid(i) == [price |-> UniswapBid(price(i)), quantity |-> i * UniswapLevelStep]
        kept == SelectSeq([i \in 1..UniDepth |-> i], LAMBDA i : i \in answered)
    IN  [bids |-> [n \in 1..Len(kept) |-> bid(kept[n])],
         asks |-> [n \in 1..Len(kept) |-> lvl(kept[n])]]

UniswapBooks ==
    {UniswapBookOf(pool, answered) : pool \in Pools, answered \in SUBSET (1..UniDepth)}

get_order_book(exchange) ==
    IF exchange = "binance" THEN BinanceBooks ELSE UniswapBooks

get_trading_fees(exchange) ==
    IF exchange = "binance" THEN BinanceTakerFee ELSE UniswapTakerFee

\* supports_pair: the pair is configured (binance) / both tokens are known (uniswap).
supports_pair(exchange, pair) ==
    IF exchange = "binance"
    THEN pair.symbol \in {p.symbol : p \in trading_pairs("binance")}
    ELSE pair.base \in TokenTable /\ pair.quote \in TokenTable

----------------------------------------------------------------------------
(* Opportunity calculator *)

\* The ask walk skipping the asks above max_buy_price instead of stopping at
\* the first of them.
RECURSIVE buy_liquidity_skipping(_, _, _)
buy_liquidity_skipping(asks, max_buy_price, i) ==
    IF i > Len(asks) THEN 0
    ELSE (IF asks[i].price * 100 > max_buy_price THEN 0 ELSE asks[i].quantity)
             + buy_liquidity_skipping(asks, max_buy_price, i + 1)

\* Sum of the quantities of the leading asks priced at most max_buy_price
\* (the walk breaks at the first ask above it); prices here are scaled by 100.
RECURSIVE buy_liquidity_from(_, _, _)
buy_liquidity_from(asks, max_buy_price, i) ==
    IF i > Len(asks) \/ asks[i].price * 100 > max_buy_price THEN 0
    ELSE asks[i].quantity + buy_liquidity_from(asks, max_buy_price, i + 1)

\* Sum of the quantities of the leading bids priced at least min_sell_price
\* (the walk breaks at the first bid below it).
RECURSIVE sell_liquidity_from(_, _, _)
sell_liquidity_from(bids, min_sell_price, i) ==
    IF i > Len(bids) \/ bids[i].price * 100 < min_sell_price THEN 0
    ELSE bids[i].quantity + sell_liquidity_from(bids, min_sell_price, i + 1)

\* config.exchanges[name].max_trade_amount, 1000 for a name not configured.
config_max(exchange) ==
    IF exchange \in Exchanges THEN max_trade_amount ELSE DefaultMaxTradeAmount

\* The error of either get_order_book call, else the size.
calculate_max_trade_size(buy_exchange, buy_book, sell_book, buy_price, sell_price) ==
    IF buy_book = Failed \/ sell_book = Failed THEN [tag |-> "Err"]
    ELSE
    LET max_buy_price == buy_price * (100 + max_slippage_pct)
        min_sell_price == sell_price * (100 - max_slippage_pct)
        buy_liquidity == buy_liquidity_from(buy_book.asks, max_buy_price, 1)
        sell_liquidity == sell_liquidity_from(sell_book.bids, min_sell_price, 1)
        max_size == Min(buy_liquidity, sell_liquidity)
    IN  [tag |-> "Ok", size |-> Min(max_size, config_max(buy_exchange))]

\* max_trade_size <= 0 tested with < : a size of zero passes.
no_size_below_zero(max_trade_size) == max_trade_size < 0

\* The calculator's last test: max_trade_size <= Decimal::ZERO gives no opportunity.
no_size(max_trade_size) == max_trade_size <= 0

\* Result of calculate_arbitrage_opportunity: "None", "Err" or "Some" with the
\* opportunity, or "Panic": the Decimal division by buy_price panics when
\* buy_price is zero.  buy_book / sell_book are what get_order_book returned
\* (Failed for a failed call); id and ts are the fresh uuid and Utc::now().
calculate_arbitrage_opportunity(pair, buy_exchange, sell_exchange, buy_price, sell_price, buy_book, sell_book, id, ts) ==
    LET gross_profit_pct == ((sell_price - buy_price) * 10000) \div buy_price
        total_fee_pct == get_trading_fees(buy_exchange) + get_trading_fees(sell_exchange)
        net_profit_pct == gross_profit_pct - total_fee_pct
        sized ==
            calculate_max_trade_size(buy_exchange, buy_book, sell_book, buy_price, sell_price)
        max_trade_size == sized.size
    IN  IF buy_price = 0 THEN [tag |-> "Panic"]
        ELSE IF gross_profit_pct <= min_profit_threshold THEN [tag |-> "None"]
        ELSE IF net_profit_pct <= min_profit_threshold THEN [tag |-> "None"]
        ELSE IF sized.tag = "Err" THEN [tag |-> "Err"]
        ELSE IF no_size(max_trade_size) THEN [tag |-> "None"]
        ELSE [tag |-> "Some",
              opp |-> [id |-> id, pair |-> pair,
                       buy_exchange |-> buy_exchange, sell_exchange |-> sell_exchange,
                       buy_price |-> buy_price, sell_price |-> sell_price,
                       profit_percentage |-> net_profit_pct,
                       profit_amount |-> max_trade_size * net_profit_pct,
                       max_trade_size |-> max_trade_size,
                       timestamp |-> ts, status |-> "Active"]]

----------------------------------------------------------------------------
(* Opportunity book *)

\* Uuid::new_v4(): a value no other opportunity has.  A tick evaluates a
\* directed venue pair of a trading pair once, so <<tick, pair, buy, sell>> is fresh.
new_v4(tick, pair, buy_exchange, sell_exchange) ==
    <<tick, pair.symbol, buy_exchange, sell_exchange>>

NoOpp == [id |-> <<0, "", "", "">>]

EmptyBook == [k \in {} |-> NoOpp]

\* A key that leaves the direction out.
key_of_pair(opp) == opp.pair.symbol

\* The key add_opportunity files an opportunity under.
key_of(opp) ==
    opp.pair.symbol \o "-" \o opp.buy_exchange \o "-" \o opp.sell_exchange

insert(book, key, opp) ==
    [k \in DOMAIN book \cup {key} |-> IF k = key THEN opp ELSE book[k]]

remove_all(book, keys) == [k \in DOMAIN book \ keys |-> book[k]]

\* add_opportunity without its comparison: every opportunity goes in.
replaces_always(book, opp) == TRUE

\* add_opportunity comparing with >= : an equal opportunity goes in too.
replaces_on_equal(book, opp) ==
    LET key == key_of(opp)
    IN  IF key \in DOMAIN book
        THEN opp.profit_percentage >= book[key].profit_percentage
        ELSE TRUE

\* add_opportunity's test: the opportunity goes into the book (and is saved).
replaces(book, opp) ==
    LET key == key_of(opp)
    IN  IF key \in DOMAIN book
        THEN opp.profit_percentage > book[key].profit_percentage
        ELSE TRUE

\* A record of the persistence port: the call, the opportunity and its status,
\* and whether the write succeeded.
save_opportunity(opp, ok) ==
    [op |-> "save_opportunity", id |-> opp.id, status |-> opp.status, ok |-> ok]

update_opportunity_status(opp, ok) ==
    [op |-> "update_opportunity_status", id |-> opp.id, status |-> opp.status,
     ok |-> ok]

\* A store whose calls are not kept: what the bot does never depends on the
\* calls the port received earlier.
Unobserved ==
    SetToBag({[op |-> "unobserved", id |-> NoOpp.id, status |-> "Active", ok |-> TRUE]})

\* The calls the port has received after some more calls.
record_calls(store, calls) ==
    IF store = Unobserved THEN store ELSE store (+) calls

----------------------------------------------------------------------------
(* Executor gate: ranking *)

\* x put behind the elements of the descending sequence t that compare >= x.
insert_sorted(x, t) ==
    LET n == Cardinality({i \in 1..Len(t) :
                            t[i].profit_percentage >= x.profit_percentage})
    IN  SubSeq(t, 1, n) \o <<x>> \o SubSeq(t, n + 1, Len(t))

\* The ranking left in the map's order: the sort forgotten.
sort_forgotten(s) == s

\* sort_by(|a, b| b.profit_percentage.cmp(&a.profit_percentage)): stable.
RECURSIVE sort_by_profit(_)
sort_by_profit(s) ==
    IF s = << >> THEN << >>
    ELSE insert_sorted(s[Len(s)], sort_by_profit(SubSeq(s, 1, Len(s) - 1)))

\* take(max_concurrent) off by one.
take_one_more(s, n) == SubSeq(s, 1, Min(n + 1, Len(s)))

take(s, n) == SubSeq(s, 1, Min(n, Len(s)))

----------------------------------------------------------------------------
(* Scan loop: control flow of scan_and_execute *)

\* scan_and_execute going on with a single enabled exchange.
one_exchange_is_enough(enabled_exchanges) == Cardinality(enabled_exchanges) >= 1

\* scan_and_execute goes on past its first test: enabled_exchanges.len() >= 2.
enough_exchanges(enabled_exchanges) == Cardinality(enabled_exchanges) >= 2

\* scan_and_execute with cleanup called before the executor gate.
next_phase_cleanup_first(phase) ==
    CASE phase = "scan" -> "cleanup"
      [] phase = "cleanup" -> "execute"
      [] phase = "execute" -> "returned"

\* The phase scan_and_execute enters when a phase has finished.
next_phase(phase) ==
    CASE phase = "scan" -> "execute"
      [] phase = "execute" -> "cleanup"
      [] phase = "cleanup" -> "returned"

\* scan_pair_for_opportunities(..).await? : the error of a pair ends the tick.
after_pair_propagating(result, remaining) ==
    IF result = "Err" THEN "backoff"
    ELSE IF remaining = {} THEN next_phase("scan") ELSE "scan"

\* Where the tick goes when the scan of a pair returned `result`, with the
\* pairs `remaining` still to scan: an error is only logged.
after_pair(result, remaining) ==
    IF remaining = {} THEN next_phase("scan") ELSE "scan"

NoCur == [pair |-> NoPair, prices |-> << >>, i |-> 0, j |-> 0, dir |-> 0]

\* The loops of scan_pair_for_opportunities: for i, for j > i, both directions.
last_position(c) ==
    c.dir = 2 /\ c.j = Len(c.prices) /\ c.i + 2 > Len(c.prices)

next_position(c) ==
    IF c.dir = 1 THEN [c EXCEPT !.dir = 2]
    ELSE IF c.j < Len(c.prices) THEN [c EXCEPT !.j = c.j + 1, !.dir = 1]
    ELSE [c EXCEPT !.i = c.i + 1, !.j = c.i + 2, !.dir = 1]

\* The scan of the current pair returns `result`.
end_pair(pair, result) ==
    /\ all_pairs' = all_pairs \ {pair}
    /\ pc' = after_pair(result, all_pairs \ {pair})
    /\ cur' = NoCur

\* The current directed venue pair is done without error.
continue_pair ==
    IF last_position(cur) THEN end_pair(cur.pair, "Ok")
    ELSE /\ cur' = next_position(cur)
         /\ pc' = "calc"
         /\ UNCHANGED all_pairs

warn_pair(pair) == [e |-> "error_scanning_pair", pair |-> pair.symbol]

----------------------------------------------------------------------------
(* Executor gate and expiry: effects *)

ExecutionMethods ==
    {"place_buy_order", "place_sell_order", "get_order_status", "cancel_order"}

\* execute_opportunity without the dry_run test, trading and marking Executed.
execute_opportunity_live(book, opp, dry) ==
    [book |-> remove_all(book, {key_of(opp)}),
     writes |-> SetToBag({update_opportunity_status(
                              [opp EXCEPT !.status = "Executed"], TRUE)}),
     calls |-> <<[e |-> "place_buy_order", id |-> opp.id],
                 [e |-> "place_sell_order", id |-> opp.id]>>,
     line |-> [e |-> "execution_completed", id |-> opp.id]]

\* execute_opportunity: the book it leaves, the persistence calls and the
\* adapter execution calls it makes.  Both branches only log.
execute_opportunity(book, opp, dry) ==
    [book |-> book, writes |-> EmptyBag, calls |-> << >>,
     line |-> [e |-> IF dry THEN "dry_run" ELSE "execution_completed", id |-> opp.id]]

\* The age test with its operands exchanged.
is_expired_reversed(opp, t) == opp.timestamp - t > ExpiryMinutes

\* The filter of cleanup_expired_opportunities.
is_expired(opp, t) == t - opp.timestamp > ExpiryMinutes

----------------------------------------------------------------------------
(* Actions *)

\* tokio::time::interval as run() creates it: the missed-tick behaviour is
\* the default one (Burst), under which the deadline after a tick is the
\* deadline of that tick plus the period, whatever the time is.
next_deadline(d) == d + check_interval

config == <<enabled, dry_run>>
gate == <<sorted_opportunities, to_execute>>

Init ==
    /\ now = 0
    /\ deadline = 0
    /\ ticks = 0
    /\ enabled \in (SUBSET Exchanges) \ {{}}
    /\ dry_run \in BOOLEAN
    /\ active_opportunities = EmptyBook
    /\ db = EmptyBag
    /\ pc = "idle"
    /\ all_pairs = {}
    /\ cur = NoCur
    /\ pending = NoOpp
    /\ sorted_opportunities = << >>
    /\ to_execute = << >>
    /\ log = << >>

\* Time passes while the task waits for the interval (the first tick of a
\* tokio interval completes at once).
Advance ==
    /\ pc = "idle"
    /\ ticks > 0
    /\ ticks < MaxTicks
    /\ now < MaxTime
    /\ now' = now + 1
    /\ UNCHANGED <<deadline, ticks, config, active_opportunities, db, pc, all_pairs,
                   cur, pending, gate, log>>

\* interval.tick() completes and scan_and_execute starts.
Tick ==
    /\ pc = "idle"
    /\ now >= deadline
    /\ ticks < MaxTicks
    /\ ticks' = ticks + 1
    /\ deadline' = next_deadline(deadline)
    /\ IF ~enough_exchanges(enabled)
       THEN /\ pc' = "returned"
            /\ all_pairs' = {}
            /\ log' = <<[e |-> "need_two_exchanges"]>>
       ELSE /\ pc' = "scan"
            /\ all_pairs' = UNION {trading_pairs(x) : x \in enabled}
            /\ log' = << >>
    /\ sorted_opportunities' = << >>
    /\ to_execute' = << >>
    /\ UNCHANGED <<now, config, active_opportunities, db, cur, pending>>

\* scan_pair_for_opportunities, up to the quotes: one pair, every exchange of
\* the registry asked in the registry's order.
ScanPair ==
    /\ pc = "scan"
    /\ \E pair \in all_pairs, order \in Orders(enabled) :
       \E answer \in [enabled -> UNION {get_price(x) : x \in enabled} \cup {Failed}] :
         /\ \A x \in enabled : answer[x] \in get_price(x) \cup {Failed}
         /\ LET asked == SelectSeq(order, LAMBDA x : supports_pair(x, pair))
                got == SelectSeq(asked, LAMBDA x : answer[x] # Failed)
                prices == [n \in 1..Len(got) |->
                             [exchange |-> got[n], bid |-> answer[got[n]].bid,
                              ask |-> answer[got[n]].ask]]
            IN  /\ log' = Append(log, [e |-> "scan", pair |-> pair.symbol,
                                       quotes |-> Len(prices)])
                /\ IF Len(prices) < 2
                   THEN end_pair(pair, "Ok")
                   ELSE /\ cur' = [pair |-> pair, prices |-> prices,
                                   i |-> 1, j |-> 2, dir |-> 1]
                        /\ pc' = "calc"
                        /\ UNCHANGED all_pairs
    /\ UNCHANGED <<now, deadline, ticks, config, active_opportunities, db, pending,
                   gate>>

\* One call of calculate_arbitrage_opportunity from the pair scan.
Calculate ==
    /\ pc = "calc"
    /\ LET p1 == cur.prices[cur.i]
           p2 == cur.prices[cur.j]
           buy == IF cur.dir = 1 THEN p1 ELSE p2
           sell == IF cur.dir = 1 THEN p2 ELSE p1
       IN  \E buy_book \in get_order_book(buy.exchange) \cup {Failed},
              sell_book \in get_order_book(sell.exchange) \cup {Failed} :
             LET r == calculate_arbitrage_opportunity(
                          cur.pair, buy.exchange, sell.exchange, buy.ask, sell.bid,
                          buy_book, sell_book,
                          new_v4(ticks, cur.pair, buy.exchange, sell.exchange), now)
                 line == [e |-> "calc", pair |-> cur.pair.symbol,
                          buy |-> buy.exchange, sell |-> sell.exchange,
                          result |-> r.tag]
             IN  CASE r.tag = "Some" ->
                        /\ pending' = r.opp
                        /\ pc' = "add"
                        /\ log' = Append(log, line)
                        /\ UNCHANGED <<cur, all_pairs>>
                   [] r.tag = "None" ->
                        /\ continue_pair
                        /\ log' = Append(log, line)
                        /\ UNCHANGED pending
                   [] r.tag = "Err" ->
                        /\ end_pair(cur.pair, "Err")
                        /\ log' = log \o <<line, warn_pair(cur.pair)>>
                        /\ UNCHANGED pending
                   [] r.tag = "Panic" ->
                        /\ pc' = "panicked"
                        /\ log' = Append(log, line)
                        /\ UNCHANGED <<cur, all_pairs, pending>>
    /\ UNCHANGED <<now, deadline, ticks, config, active_opportunities, db, gate>>

\* add_opportunity with the opportunity the calculator returned.
AddOpportunity ==
    /\ pc = "add"
    /\ LET key == key_of(pending)
       IN  IF replaces(active_opportunities, pending)
           THEN \E ok \in BOOLEAN :
                  /\ active_opportunities' = insert(active_opportunities, key, pending)
                  /\ db' = record_calls(db, SetToBag({save_opportunity(pending, ok)}))
                  /\ IF ok
                     THEN /\ continue_pair
                          /\ log' = Append(log, [e |-> "upsert", key |-> key])
                     ELSE /\ end_pair(cur.pair, "Err")
                          /\ log' = log \o <<[e |-> "upsert", key |-> key],
                                             warn_pair(cur.pair)>>
           ELSE /\ continue_pair
                /\ log' = Append(log, [e |-> "upsert", key |-> key])
                /\ UNCHANGED <<active_opportunities, db>>
    /\ pending' = NoOpp
    /\ UNCHANGED <<now, deadline, ticks, config, gate>>

\* execute_opportunities up to the selection: snapshot, sort, take.
ExecuteOpportunities ==
    /\ pc = "execute"
    /\ \E order \in Orders(DOMAIN active_opportunities) :
         LET opportunities == [n \in 1..Len(order) |-> active_opportunities[order[n]]]
             sorted == sort_by_profit(opportunities)
             selected == take(sorted, max_concurrent_trades)
         IN  /\ sorted_opportunities' = sorted
             /\ to_execute' = selected
             /\ pc' = IF selected = << >> THEN next_phase("execute") ELSE "dispatch"
    /\ log' = Append(log, [e |-> "snapshot"])
    /\ UNCHANGED <<now, deadline, ticks, config, active_opportunities, db, all_pairs,
                   cur, pending>>

\* execute_opportunity for the next selected opportunity.
ExecuteOpportunity ==
    /\ pc = "dispatch"
    /\ to_execute # << >>
    /\ LET r == execute_opportunity(active_opportunities, Head(to_execute), dry_run)
       IN  /\ active_opportunities' = r.book
           /\ db' = record_calls(db, r.writes)
           /\ log' = (log \o r.calls) \o <<r.line>>
    /\ to_execute' = Tail(to_execute)
    /\ pc' = IF Tail(to_execute) = << >> THEN next_phase("execute") ELSE "dispatch"
    /\ UNCHANGED <<now, deadline, ticks, config, all_pairs, cur, pending,
                   sorted_opportunities>>

\* cleanup_expired_opportunities: the expired keys in the map's order; each is
\* removed, then its Expired status written; a failed write ends the function.
CleanupExpiredOpportunities ==
    /\ pc = "cleanup"
    /\ LET expired_keys == {k \in DOMAIN active_opportunities :
                              is_expired(active_opportunities[k], now)}
       IN  \E order \in Orders(expired_keys), fail \in 0..Cardinality(expired_keys) :
             LET n == IF fail = 0 THEN Len(order) ELSE fail
                 removed == {order[i] : i \in 1..n}
                 expired(k) == [active_opportunities[k] EXCEPT !.status = "Expired"]
             IN  /\ active_opportunities' = remove_all(active_opportunities, removed)
                 /\ db' = record_calls(db, SetToBag({update_opportunity_status(
                                  expired(order[i]), i # fail) : i \in 1..n}))
                 /\ log' = Append(log, [e |-> "expire", at |-> now,
                                        result |-> IF fail = 0 THEN "Ok" ELSE "Err"])
                 /\ pc' = IF fail = 0 THEN next_phase("cleanup") ELSE "backoff"
    /\ UNCHANGED <<now, deadline, ticks, config, all_pairs, cur, pending, gate>>

\* run(): scan_and_execute returned Ok; the loop waits for the interval again.
Return ==
    /\ pc = "returned"
    /\ pc' = "idle"
    /\ log' = << >>
    /\ UNCHANGED <<now, deadline, ticks, config, active_opportunities, db, all_pairs,
                   cur, pending, gate>>

\* run(): scan_and_execute returned an error; the loop sleeps 5 seconds, then
\* waits for the interval again.
Backoff ==
    /\ pc = "backoff"
    /\ pc' = "idle"
    /\ log' = << >>
    /\ UNCHANGED <<now, deadline, ticks, config, active_opportunities, db, all_pairs,
                   cur, pending, gate>>

Next ==
    \/ Advance
    \/ Tick
    \/ ScanPair
    \/ Calculate
    \/ AddOpportunity
    \/ ExecuteOpportunities
    \/ ExecuteOpportunity
    \/ CleanupExpiredOpportunities
    \/ Return
    \/ Backoff

Spec == Init /\ [][Next]_vars

----------------------------------------------------------------------------
(* The calculator on its own: every call the pair scan can make *)

\* The quote the current calculator call buys at (its ask is buy_price) and
\* the quote it sells at (its bid is sell_price).
buy_quote(c) == IF c.dir = 1 THEN c.prices[c.i] ELSE c.prices[c.j]

sell_quote(c) == IF c.dir = 1 THEN c.prices[c.j] ELSE c.prices[c.i]

\* A pair scan that got a quote from both venues stands before one of its two
\* calculator calls.
CalcInit ==
    /\ now = 0
    /\ deadline = check_interval
    /\ ticks = 1
    /\ enabled = Exchanges
    /\ dry_run = FALSE
    /\ active_opportunities = EmptyBook
    /\ db = EmptyBag
    /\ pc = "books"
    /\ all_pairs = {}
    /\ \E b \in get_price("binance"), u \in get_price("uniswap"), dir \in {1, 2} :
         cur = [pair |-> TradingPair_new("WETH", "USDC"),
                prices |-> <<[exchange |-> "binance", bid |-> b.bid, ask |-> b.ask],
                             [exchange |-> "uniswap", bid |-> u.bid, ask |-> u.ask]>>,
                i |-> 1, j |-> 2, dir |-> dir]
    /\ pending = NoOpp
    /\ sorted_opportunities = << >>
    /\ to_execute = << >>
    /\ log = << >>

\* get_order_book of the buy venue and of the sell venue answer.
GetOrderBooks ==
    /\ pc = "books"
    /\ \E buy_book \in get_order_book(buy_quote(cur).exchange) \cup {Failed},
          sell_book \in get_order_book(sell_quote(cur).exchange) \cup {Failed} :
         log' = <<[e |-> "order_books", buy |-> buy_book, sell |-> sell_book]>>
    /\ pc' = "calc"
    /\ UNCHANGED <<now, deadline, ticks, config, active_opportunities, db, all_pairs,
                   cur, pending, gate>>

\* calculate_max_trade_size with these quotes and books.
CalculateMaxTradeSize ==
    /\ pc = "calc"
    /\ LET buy == buy_quote(cur)
           sell == sell_quote(cur)
       IN  log' = Append(log, [e |-> "size",
                               result |-> calculate_max_trade_size(
                                              buy.exchange, log[1].buy, log[1].sell,
                                              buy.ask, sell.bid)])
    /\ pc' = "sized"
    /\ UNCHANGED <<now, deadline, ticks, config, active_opportunities, db, all_pairs,
                   cur, pending, gate>>

\* calculate_arbitrage_opportunity with these quotes and books.
CalculateArbitrageOpportunity ==
    /\ pc = "calc"
    /\ LET buy == buy_quote(cur)
           sell == sell_quote(cur)
           r == calculate_arbitrage_opportunity(
                    cur.pair, buy.exchange, sell.exchange, buy.ask, sell.bid,
                    log[1].buy, log[1].sell,
                    new_v4(ticks, cur.pair, buy.exchange, sell.exchange), now)
       IN  /\ pending' = IF r.tag = "Some" THEN r.opp ELSE NoOpp
           /\ log' = Append(log, [e |-> "calc", pair |-> cur.pair.symbol,
                                  buy |-> buy.exchange, sell |-> sell.exchange,
                                  result |-> r.tag])
    /\ pc' = "called"
    /\ UNCHANGED <<now, deadline, ticks, config, active_opportunities, db, all_pairs,
                   cur, gate>>

CalcNext ==
    \/ GetOrderBooks
    \/ CalculateMaxTradeSize
    \/ CalculateArbitrageOpportunity

CalcSpec == CalcInit /\ [][CalcNext]_vars

----------------------------------------------------------------------------
(* The registry's price helpers on their own *)

\* What a ticker can show when the registry asks: the quotes above and,
\* since a ticker is free to show the prices the pool shows, those too.
TickerQuotes == BinanceQuotes \cup UniswapQuotes

\* ExchangeManager::get_all_prices: every exchange of the registry that
\* supports the pair is asked in the registry's iteration order; a failed
\* call is skipped.
get_all_prices(order, pair, answer) ==
    LET asked == SelectSeq(order, LAMBDA x : supports_pair(x, pair))
        got == SelectSeq(asked, LAMBDA x : answer[x] # Failed)
    IN  [n \in 1..Len(got) |->
            [exchange |-> got[n], bid |-> answer[got[n]].bid,
             ask |-> answer[got[n]].ask]]

\* Option<Price>.
NoPrice == [tag |-> "None"]

SomePrice(p) == [tag |-> "Some", price |-> p]

\* A helper that compares nothing: the first quote.
first_price(prices) ==
    IF prices = << >> THEN NoPrice ELSE SomePrice(prices[1])

\* Iterator::min_by on ask: of several equally minimal quotes the first.
min_by_ask(prices) ==
    IF prices = << >> THEN NoPrice
    ELSE LET i == CHOOSE i \in 1..Len(prices) :
                    /\ \A j \in 1..Len(prices) : prices[i].ask <= prices[j].ask
                    /\ \A j \in 1..(i - 1) : prices[j].ask > prices[i].ask
         IN  SomePrice(prices[i])

\* Iterator::max_by on bid: of several equally maximal quotes the last.
max_by_bid(prices) ==
    IF prices = << >> THEN NoPrice
    ELSE LET i == CHOOSE i \in 1..Len(prices) :
                    /\ \A j \in 1..Len(prices) : prices[j].bid <= prices[i].bid
                    /\ \A j \in (i + 1)..Len(prices) : prices[j].bid < prices[i].bid
         IN  SomePrice(prices[i])

find_best_buy_price(order, pair, answer) ==
    min_by_ask(get_all_prices(order, pair, answer))

find_best_sell_price(order, pair, answer) ==
    max_by_bid(get_all_prices(order, pair, answer))

\* A registry with both venues, some iteration order of its map, a pair, and
\* what each venue answers when asked for its price.
RegistryInit ==
    /\ now = 0
    /\ deadline = check_interval
    /\ ticks = 1
    /\ enabled = Exchanges
    /\ dry_run = FALSE
    /\ active_opportunities = EmptyBook
    /\ db = EmptyBag
    /\ pc = "registry"
    /\ all_pairs = {}
    /\ \E pair \in trading_pairs("binance"), order \in Orders(Exchanges) :
       \E b \in TickerQuotes \cup {Failed}, u \in get_price("uniswap") \cup {Failed} :
         cur = [pair |-> pair, order |-> order,
                answer |-> [x \in Exchanges |-> IF x = "binance" THEN b ELSE u]]
    /\ pending = NoOpp
    /\ sorted_opportunities = << >>
    /\ to_execute = << >>
    /\ log = << >>

GetAllPrices ==
    /\ pc = "registry"
    /\ log' = <<[e |-> "get_all_prices",
                 prices |-> get_all_prices(cur.order, cur.pair, cur.answer)]>>
    /\ pc' = "answered"
    /\ UNCHANGED <<now, deadline, ticks, config, active_opportunities, db, all_pairs,
                   cur, pending, gate>>

FindBestBuyPrice ==
    /\ pc = "registry"
    /\ log' = <<[e |-> "find_best_buy_price",
                 prices |-> get_all_prices(cur.order, cur.pair, cur.answer),
                 result |-> find_best_buy_price(cur.order, cur.pair, cur.answer)]>>
    /\ pc' = "answered"
    /\ UNCHANGED <<now, deadline, ticks, config, active_opportunities, db, all_pairs,
                   cur, pending, gate>>

FindBestSellPrice ==
    /\ pc = "registry"
    /\ log' = <<[e |-> "find_best_sell_price",
                 prices |-> get_all_prices(cur.order, cur.pair, cur.answer),
                 result |-> find_best_sell_price(cur.order, cur.pair, cur.answer)]>>
    /\ pc' = "answered"
    /\ UNCHANGED <<now, deadline, ticks, config, active_opportunities, db, all_pairs,
                   cur, pending, gate>>

RegistryNext ==
    \/ GetAllPrices
    \/ FindBestBuyPrice
    \/ FindBestSellPrice

RegistrySpec == RegistryInit /\ [][RegistryNext]_vars

----------------------------------------------------------------------------
(* The timing of run(): ticks that take time *)

\* The loop has not started; the first tick of the interval is due at once.
RunInit ==
    /\ now = 0
    /\ deadline = 0
    /\ ticks = 0
    /\ enabled = Exchanges
    /\ dry_run = FALSE
    /\ active_opportunities = EmptyBook
    /\ db = EmptyBag
    /\ pc = "waiting"
    /\ all_pairs = {}
    /\ cur = NoCur
    /\ pending = NoOpp
    /\ sorted_opportunities = << >>
    /\ to_execute = << >>
    /\ log = << >>

\* interval.tick().await is pending: the deadline lies ahead and time passes.
IntervalWait ==
    /\ pc = "waiting"
    /\ now < deadline
    /\ now < MaxRunTime
    /\ now' = now + 1
    /\ UNCHANGED <<deadline, ticks, config, active_opportunities, db, pc, all_pairs,
                   cur, pending, gate, log>>

\* interval.tick().await completes, at once when the deadline has passed, and
\* scan_and_execute is called.
IntervalTick ==
    /\ pc = "waiting"
    /\ now >= deadline
    /\ ticks' = ticks + 1
    /\ deadline' = next_deadline(deadline)
    /\ log' = Append(log, [due |-> deadline, start |-> now, end |-> -1])
    /\ pc' = "running"
    /\ UNCHANGED <<now, config, active_opportunities, db, all_pairs, cur, pending,
                   gate>>

\* scan_and_execute is awaited and time passes.
ScanAndExecuteRuns ==
    /\ pc = "running"
    /\ now < MaxRunTime
    /\ now' = now + 1
    /\ UNCHANGED <<deadline, ticks, config, active_opportunities, db, pc, all_pairs,
                   cur, pending, gate, log>>

\* scan_and_execute returns: Ok, and the loop awaits the interval again, or
\* Err, and the loop sleeps first.
ScanAndExecuteReturns ==
    /\ pc = "running"
    /\ log' = [log EXCEPT ![Len(log)].end = now]
    /\ \E result \in {"Ok", "Err"} :
         pc' = IF result = "Ok" THEN "waiting" ELSE "sleeping"
    /\ UNCHANGED <<now, deadline, ticks, config, active_opportunities, db, all_pairs,
                   cur, pending, gate>>

\* The 5 second sleep after an error is over (less than a minute).
Sleep ==
    /\ pc = "sleeping"
    /\ pc' = "waiting"
    /\ UNCHANGED <<now, deadline, ticks, config, active_opportunities, db, all_pairs,
                   cur, pending, gate, log>>

RunNext ==
    \/ IntervalWait
    \/ IntervalTick
    \/ ScanAndExecuteRuns
    \/ ScanAndExecuteReturns
    \/ Sleep

RunSpec == RunInit /\ [][RunNext]_vars

----------------------------------------------------------------------------
(* The scan loop running forever *)

\* The loop without an end.  To keep the state finite, instants are counted
\* from the present (now stays 0 and a passing minute moves the deadline and
\* every timestamp one minute into the past; the program only reads
\* differences of instants), an age past the expiry age is kept as that age,
\* the tick number that stands for a fresh uuid is reused after IdCycle ticks,
\* and the calls of the persistence port are not kept.  Both venues are
\* enabled, and the interval's tick completes as soon as it is due.
LiveInit ==
    /\ now = 0
    /\ deadline = 0
    /\ ticks = 0
    /\ enabled = Exchanges
    /\ dry_run \in BOOLEAN
    /\ active_opportunities = EmptyBook
    /\ db = Unobserved
    /\ pc = "idle"
    /\ all_pairs = {}
    /\ cur = NoCur
    /\ pending = NoOpp
    /\ sorted_opportunities = << >>
    /\ to_execute = << >>
    /\ log = << >>

\* The instant t one minute later, counted from the present.
a_minute_later(t) ==
    IF t - 1 < now - (ExpiryMinutes + 1) THEN now - (ExpiryMinutes + 1) ELSE t - 1

\* A minute passes while the task waits for the interval.
LiveAdvance ==
    /\ pc = "idle"
    /\ ticks > 0
    /\ now < deadline
    /\ deadline' = deadline - 1
    /\ active_opportunities' =
          [k \in DOMAIN active_opportunities |->
              [active_opportunities[k] EXCEPT
                  !.timestamp = a_minute_later(active_opportunities[k].timestamp)]]
    /\ UNCHANGED <<now, ticks, config, db, pc, all_pairs, cur, pending, gate, log>>

\* interval.tick() completes and scan_and_execute starts.
LiveTick ==
    /\ pc = "idle"
    /\ now >= deadline
    /\ ticks' = (ticks % IdCycle) + 1
    /\ deadline' = next_deadline(deadline)
    /\ pc' = "scan"
    /\ all_pairs' = UNION {trading_pairs(x) : x \in enabled}
    /\ log' = << >>
    /\ sorted_opportunities' = << >>
    /\ to_execute' = << >>
    /\ UNCHANGED <<now, config, active_opportunities, db, cur, pending>>

LiveNext ==
    \/ LiveAdvance
    \/ LiveTick
    \/ ScanPair
    \/ Calculate
    \/ AddOpportunity
    \/ ExecuteOpportunities
    \/ ExecuteOpportunity
    \/ CleanupExpiredOpportunities
    \/ Return
    \/ Backoff

\* The task is always scheduled again and the clock goes on.
LiveSpec == LiveInit /\ [][LiveNext]_vars /\ WF_vars(LiveNext)

----------------------------------------------------------------------------
(* Reading the state *)

book_entries == {active_opportunities[k] : k \in DOMAIN active_opportunities}

\* Positions of the log with an entry of kind e.
at(e) == {i \in DOMAIN log : log[i].e = e}

DispatchLines == {"dry_run", "execution_completed"}

dispatched == {i \in DOMAIN log : log[i].e \in DispatchLines}

\* scan_and_execute has returned and its log is complete.
TickEnded ==
    /\ pc \in {"returned", "backoff"}
    /\ ticks > 0
    /\ Cardinality(enabled) >= 2

\* The pairs scan_and_execute collects from the enabled exchanges.
tick_pairs == UNION {trading_pairs(x) : x \in enabled}

----------------------------------------------------------------------------
(* C1 *)

\* C1: for every key, the profit_percentage stored under the key never
\* decreases from one state to the next while the key stays in the book.
C1_ProfitNeverDecreases ==
    [][\A k \in DOMAIN active_opportunities \cap DOMAIN active_opportunities' :
         active_opportunities'[k].profit_percentage
             >= active_opportunities[k].profit_percentage]_vars

\* An entry of an earlier tick has been replaced under its key by a strictly
\* more profitable one, and an upsert with a lower profit was met as well.
C1_Witness ==
    /\ pc = "execute"
    /\ \E k \in DOMAIN active_opportunities :
         LET o == active_opportunities[k]
         IN  /\ o.id[1] = 2
             /\ o.profit_percentage = 260
             /\ \E r \in BagToSet(db) :
                  r.op = "save_opportunity" /\ r.id = <<1, o.id[2], o.id[3], o.id[4]>>

----------------------------------------------------------------------------
(* C2 *)

\* C2: add_opportunity changes the book and issues one save_opportunity call
\* exactly when the key is new or the profit is strictly greater than the
\* stored one; otherwise book (id and timestamp included) and store are left alone.
C2_UpsertIffBetter ==
    [][pc = "add" =>
         LET key == key_of(pending)
             better ==
                 \/ key \notin DOMAIN active_opportunities
                 \/ pending.profit_percentage
                        > active_opportunities[key].profit_percentage
             saves == BagCardinality(db') - BagCardinality(db)
         IN  /\ better =>
                  /\ active_opportunities' # active_opportunities
                  /\ active_opportunities'[key] = pending
                  /\ saves = 1
                  /\ \E r \in BagToSet(db') :
                       /\ r.op = "save_opportunity"
                       /\ r.id = pending.id
                       /\ CopiesIn(r, db') = CopiesIn(r, db) + 1
             /\ ~better =>
                  /\ active_opportunities' = active_opportunities
                  /\ db' = db]_vars

\* An upsert of equal or lower profit has been ignored: the key was upserted in
\* this tick and still holds the entry of an earlier tick.
C2_Witness ==
    \E i \in at("upsert") :
        /\ log[i].key \in DOMAIN active_opportunities
        /\ active_opportunities[log[i].key].id[1] < ticks
        /\ pc = "execute"

----------------------------------------------------------------------------
(* C3 *)

\* C3: after cleanup_expired_opportunities the book holds exactly the entries
\* it held before whose age is at most 5 minutes.
C3_ExpireRemovesExactlyTheOld ==
    [][pc = "cleanup" /\ pc' # "cleanup" =>
         active_opportunities' =
             [k \in {q \in DOMAIN active_opportunities :
                       now - active_opportunities[q].timestamp <= 5}
                |-> active_opportunities[k]]]_vars

----------------------------------------------------------------------------
(* C4 *)

----------------------------------------------------------------------------
(* C5 *)

\* C5: with dry_run off, every opportunity the gate dispatched in a tick has
\* by the end of the tick a terminal status, Executed or Failed, written to
\* the persistence port.
C5_DispatchedEndTerminal ==
    (TickEnded /\ ~dry_run) =>
        \A i \in dispatched :
            \E r \in BagToSet(db) :
                /\ r.op = "update_opportunity_status"
                /\ r.id = log[i].id
                /\ r.status \in {"Executed", "Failed"}

----------------------------------------------------------------------------
(* C6 *)

\* C6: with dry_run on, no step of the executor gate changes the book, writes
\* to the persistence port or calls an adapter execution method.
C6_DryRunChangesNothing ==
    [][(dry_run /\ pc \in {"execute", "dispatch"}) =>
         /\ active_opportunities' = active_opportunities
         /\ db' = db
         /\ \A i \in DOMAIN log' : log'[i].e \notin ExecutionMethods]_vars

\* In dry-run mode the gate has dispatched an opportunity, in a second tick.
C6_Witness ==
    /\ dry_run
    /\ ticks = 2
    /\ pc = "cleanup"
    /\ at("dry_run") # {}

----------------------------------------------------------------------------
(* C7 *)

\* C7: when the gate has finished, it has dispatched min(max_concurrent_trades,
\* number of entries) different opportunities of the book, none of them less
\* profitable than an entry it did not dispatch.
C7_DispatchesTheTop ==
    pc = "cleanup" =>
        LET ids == {log[i].id : i \in dispatched}
        IN  /\ Cardinality(dispatched)
                 = Min(max_concurrent_trades, Cardinality(book_entries))
            /\ Cardinality(ids) = Cardinality(dispatched)
            /\ ids \subseteq {o.id : o \in book_entries}
            /\ \A d \in book_entries, o \in book_entries :
                 (d.id \in ids /\ o.id \notin ids) =>
                     d.profit_percentage >= o.profit_percentage

\* The gate had two entries of different profit to choose from and has
\* dispatched the better one only.
C7_Witness ==
    /\ pc = "cleanup"
    /\ Cardinality(book_entries) = 2
    /\ Cardinality(dispatched) = 1
    /\ \E o \in book_entries :
         o.id \notin {log[i].id : i \in dispatched} /\ o.profit_percentage = 58

----------------------------------------------------------------------------
(* C8 *)

\* The phase of a tick a log entry belongs to.
phase_of(e) ==
    CASE e \in {"scan", "calc", "upsert", "error_scanning_pair"} -> 1
      [] e = "snapshot" -> 2
      [] e \in DispatchLines \cup ExecutionMethods -> 3
      [] e = "expire" -> 4
      [] OTHER -> 0

\* C8: within a tick the scan with all its upserts comes first, then the
\* snapshot of the gate, then the dispatches, then expire; no scan is in
\* progress once the snapshot is taken and no dispatch is left when expire runs.
C8_PhasesInOrder ==
    /\ \A i, j \in DOMAIN log : i < j => phase_of(log[i].e) <= phase_of(log[j].e)
    /\ Cardinality(at("snapshot")) <= 1
    /\ Cardinality(at("expire")) <= 1
    /\ at("expire") # {} => at("snapshot") # {} /\ to_execute = << >>
    /\ dispatched # {} => at("snapshot") # {}
    /\ at("snapshot") # {} => all_pairs = {} /\ cur = NoCur /\ pending = NoOpp

\* A tick has upserted, taken its snapshot, dispatched and expired.
C8_Witness ==
    /\ pc = "returned"
    /\ at("upsert") # {}
    /\ dispatched # {}
    /\ at("expire") # {}

----------------------------------------------------------------------------
(* C9 *)

\* C9: a tick in which the scan of a pair failed has still scanned every pair
\* of its pair set and has run the executor gate and expire.
C9_PairErrorDoesNotAbortTick ==
    (TickEnded /\ at("error_scanning_pair") # {}) =>
        /\ \A p \in tick_pairs : \E i \in at("scan") : log[i].pair = p.symbol
        /\ at("snapshot") # {}
        /\ at("expire") # {}

\* The scan of the first pair of a tick failed and the other pair was scanned
\* after it.
C9_Witness ==
    /\ TickEnded
    /\ \E i \in at("error_scanning_pair"), j \in at("scan") :
         i < j /\ log[j].pair # log[i].pair

----------------------------------------------------------------------------
(* C10 *)

\* C10: in the scan of a pair for which two venues returned a quote the
\* calculator is called in both directions, every opportunity it returns is
\* upserted, and a failure in one direction does not keep the other direction
\* from being evaluated.
C10_BothDirectionsEvaluated ==
    TickEnded =>
        \A i \in at("scan") :
            log[i].quotes = 2 =>
                /\ \A buy \in Exchanges : \A sell \in Exchanges \ {buy} :
                     \E j \in at("calc") :
                         /\ log[j].pair = log[i].pair
                         /\ log[j].buy = buy
                         /\ log[j].sell = sell
                /\ \A j \in at("calc") :
                     log[j].result = "Some" =>
                         /\ j + 1 \in at("upsert")
                         /\ log[j + 1].key =
                                log[j].pair \o "-" \o log[j].buy \o "-" \o log[j].sell

----------------------------------------------------------------------------
(* C11 *)

\* C11: an upsert whose save_opportunity failed leaves its entry in the book,
\* and the next upsert for a key whose stored entry has no successful save
\* issues a save_opportunity call again.
C11_NextUpsertSavesAgain ==
    [][pc = "add" =>
         LET key == key_of(pending)
             saved(o, store) ==
                 \E r \in BagToSet(store) :
                     r.op = "save_opportunity" /\ r.id = o.id /\ r.ok
             failed_now ==
                 \E r \in BagToSet(db') :
                     /\ r.op = "save_opportunity" /\ r.id = pending.id /\ ~r.ok
                     /\ CopiesIn(r, db') = CopiesIn(r, db) + 1
         IN  /\ failed_now =>
                  /\ key \in DOMAIN active_opportunities'
                  /\ active_opportunities'[key] = pending
             /\ (/\ key \in DOMAIN active_opportunities
                 /\ ~saved(active_opportunities[key], db)) =>
                    BagCardinality(db') = BagCardinality(db) + 1]_vars

----------------------------------------------------------------------------
(* C12 *)

\* C12: the book an upsert or expire leaves is the book it leaves when all of
\* its persistence writes succeed: after an upsert the better of the stored
\* and the new entry under the key, after expire the entries not yet expired.
C12_FailedWriteLeavesMemoryAlone ==
    [][/\ pc = "add" =>
            active_opportunities' =
                IF replaces(active_opportunities, pending)
                THEN insert(active_opportunities, key_of(pending), pending)
                ELSE active_opportunities
       /\ pc = "cleanup" =>
            active_opportunities' =
                remove_all(active_opportunities,
                           {k \in DOMAIN active_opportunities :
                              is_expired(active_opportunities[k], now)})]_vars

----------------------------------------------------------------------------
(* C13 *)

\* C13: every entry expire takes out of the book has its Expired status
\* written to the persistence port by then, and the Expired status of an
\* opportunity id is written at most once.
C13_ExpiredWrittenOnce ==
    [][pc = "cleanup" =>
         /\ \A k \in DOMAIN active_opportunities \ DOMAIN active_opportunities' :
              \E r \in BagToSet(db') :
                  /\ r.op = "update_opportunity_status"
                  /\ r.id = active_opportunities[k].id
                  /\ r.status = "Expired"
                  /\ r.ok
         /\ \A r \in BagToSet(db') :
              (r.op = "update_opportunity_status" /\ r.status = "Expired") =>
                  /\ CopiesIn(r, db') = 1
                  /\ \A q \in BagToSet(db') :
                       (/\ q.op = "update_opportunity_status"
                        /\ q.status = "Expired" /\ q.id = r.id) => q = r]_vars

----------------------------------------------------------------------------
(* C14 *)

\* C14: with fewer than two enabled venues a tick fetches no quote, puts no
\* opportunity into the book, writes nothing and dispatches nothing; it logs
\* one line and returns.
C14_FewVenuesDoNothing ==
    Cardinality(enabled) < 2 =>
        /\ \A i \in DOMAIN log : log[i].e = "need_two_exchanges"
        /\ Len(log) <= 1
        /\ active_opportunities = EmptyBook
        /\ db = EmptyBag
        /\ sorted_opportunities = << >> /\ to_execute = << >>
        /\ pc \in {"idle", "returned"}

\* The second tick of a bot with one enabled venue has returned.
C14_Witness ==
    /\ Cardinality(enabled) = 1
    /\ ticks = 2
    /\ pc = "returned"
    /\ log = <<[e |-> "need_two_exchanges"]>>

----------------------------------------------------------------------------
(* C15 *)

\* C15: a calculator call ends in one of three ways, no opportunity, one
\* opportunity or an error: the opportunity exactly when gross_pct and
\* net_pct = gross_pct - fees exceed min_profit_threshold, the order books were
\* delivered and the size is positive; an error when an order book call it
\* makes fails; no opportunity otherwise.
C15_ThreeOutcomes ==
    pc = "called" =>
        LET buy == buy_quote(cur)
            sell == sell_quote(cur)
            buy_price == buy.ask
            sell_price == sell.bid
            result == log[2].result
            adapters_ok == log[1].buy # Failed /\ log[1].sell # Failed
            fee(x) == IF x = "binance" THEN BinanceTakerFee ELSE UniswapTakerFee
            gross_pct == ((sell_price - buy_price) * 10000) \div buy_price
            net_pct == gross_pct - (fee(buy.exchange) + fee(sell.exchange))
            margin == gross_pct > min_profit_threshold /\ net_pct > min_profit_threshold
            size == calculate_max_trade_size(buy.exchange, log[1].buy, log[1].sell,
                                             buy_price, sell_price).size
        IN  /\ result \in {"None", "Some", "Err"}
            /\ buy_price # 0 =>
                 /\ result = "Some" <=> (margin /\ adapters_ok /\ size > 0)
                 /\ result = "Err" <=> (margin /\ ~adapters_ok)
                 /\ result = "Some" =>
                      /\ pending.profit_percentage = net_pct
                      /\ pending.max_trade_size = size
                      /\ pending.profit_amount = size * net_pct
                 /\ result # "Some" => pending = NoOpp

----------------------------------------------------------------------------
(* C16 *)

\* C16: every entry of the book has buy_venue # sell_venue, sell_price >
\* buy_price, profit_pct > min_profit_threshold, max_trade_size > 0 and
\* profit_amount = max_trade_size * profit_pct / 100 (a percentage counted in
\* hundredths times a size gives an amount in 1/10000).
C16_EntriesAreWellFormed ==
    \A o \in book_entries :
        /\ o.buy_exchange # o.sell_exchange
        /\ o.sell_price > o.buy_price
        /\ o.profit_percentage > min_profit_threshold
        /\ o.max_trade_size > 0
        /\ o.profit_amount = o.max_trade_size * o.profit_percentage

\* The book holds an entry for each direction, one of them sized by the order
\* books (30) and one by max_trade_amount.
C16_Witness ==
    /\ pc = "execute"
    /\ \E a \in book_entries, b \in book_entries :
         /\ a.buy_exchange = b.sell_exchange /\ a.sell_exchange = b.buy_exchange
         /\ a.max_trade_size = 30
         /\ b.max_trade_size = max_trade_amount

----------------------------------------------------------------------------
(* C17 *)

\* C17: the computed size is the least of buy_liquidity, sell_liquidity and
\* the max_trade_amount of the buy venue, where a liquidity is the sum of the
\* quantities of the longest leading run of levels inside the slippage band;
\* a level behind the first level outside the band is not counted.
C17_SizeIsLeadingRunMinimum ==
    pc = "sized" =>
        LET buy_price == buy_quote(cur).ask
            sell_price == sell_quote(cur).bid
            asks == log[1].buy.asks
            bids == log[1].sell.bids
            ask_in_band(l) == l.price * 100 <= buy_price * (100 + max_slippage_pct)
            bid_in_band(l) == l.price * 100 >= sell_price * (100 - max_slippage_pct)
            ask_run == {n \in 0..Len(asks) : \A i \in 1..n : ask_in_band(asks[i])}
            bid_run == {n \in 0..Len(bids) : \A i \in 1..n : bid_in_band(bids[i])}
            longest(run) == CHOOSE n \in run : \A m \in run : m <= n
            total[levels \in {asks, bids}, n \in 0..(Len(asks) + Len(bids))] ==
                IF n = 0 THEN 0 ELSE total[levels, n - 1] + levels[n].quantity
            buy_liquidity == total[asks, longest(ask_run)]
            sell_liquidity == total[bids, longest(bid_run)]
        IN  IF log[1].buy = Failed \/ log[1].sell = Failed
            THEN log[2].result.tag = "Err"
            ELSE /\ log[2].result.tag = "Ok"
                 /\ log[2].result.size =
                        Min(Min(buy_liquidity, sell_liquidity), max_trade_amount)

\* A size has been computed from asks whose first level lies outside the band
\* and whose second level lies inside it: the second level is not counted.
C17_Witness ==
    /\ pc = "sized"
    /\ log[1].buy # Failed /\ log[1].sell # Failed
    /\ Len(log[1].buy.asks) = 2
    /\ log[1].buy.asks[1].price * 100 > buy_quote(cur).ask * (100 + max_slippage_pct)
    /\ log[1].buy.asks[2].price * 100 <= buy_quote(cur).ask * (100 + max_slippage_pct)
    /\ log[1].sell.bids # << >>
    /\ log[1].sell.bids[1].price * 100
           >= sell_quote(cur).bid * (100 - max_slippage_pct)
    /\ log[2].result.size = 0

----------------------------------------------------------------------------
(* C18 *)

\* C18: an upsert leaves every entry of another direction in the book as it
\* is and puts no entry but its own into the book; expire takes out no entry
\* that has not itself expired and changes none.
C18_DirectionsAreIndependent ==
    [][/\ pc = "add" =>
            /\ \A o \in book_entries :
                 (o.pair # pending.pair \/ o.buy_exchange # pending.buy_exchange
                                        \/ o.sell_exchange # pending.sell_exchange)
                     => o \in {active_opportunities'[k] : k \in DOMAIN active_opportunities'}
            /\ \A k \in DOMAIN active_opportunities' :
                 active_opportunities'[k] \notin book_entries
                     => active_opportunities'[k] = pending
       /\ pc = "cleanup" =>
            /\ \A o \in book_entries :
                 ~is_expired(o, now)
                     => o \in {active_opportunities'[k] : k \in DOMAIN active_opportunities'}
            /\ \A k \in DOMAIN active_opportunities' :
                 active_opportunities'[k] \in book_entries]_vars

\* The second tick has upserted one direction while the entry of the opposite
\* direction, found by the first tick, was in the book, and has then expired
\* that entry and kept the new one.
C18_Witness ==
    /\ pc = "returned"
    /\ ticks = 2
    /\ \E o \in book_entries :
         /\ book_entries = {o}
         /\ o.id[1] = 2
         /\ \E r \in BagToSet(db) :
              /\ r.op = "update_opportunity_status"
              /\ r.status = "Expired"
              /\ r.id = <<1, o.pair.symbol, o.sell_exchange, o.buy_exchange>>

----------------------------------------------------------------------------
(* C19 *)

\* C19: a quote with a bid or an ask that is not positive, or with bid > ask,
\* is dropped like the quote of a failed venue: it is not among the prices the
\* pair scan works from, no entry of the book has sell_price <= buy_price or
\* buy_price <= 0, and the task goes on.
C19_InconsistentQuoteIsDropped ==
    /\ pc # "panicked"
    /\ pc \in {"calc", "add"} =>
         \A n \in DOMAIN cur.prices :
             /\ cur.prices[n].bid > 0
             /\ cur.prices[n].ask > 0
             /\ cur.prices[n].bid <= cur.prices[n].ask
    /\ \A o \in book_entries : o.sell_price > o.buy_price /\ o.buy_price > 0

----------------------------------------------------------------------------
(* C20 *)

\* C20: every order book an adapter delivers has its bids in descending and
\* its asks in ascending order of price.
C20_BooksAreSorted ==
    pc = "calc" =>
        \A book \in {log[1].buy, log[1].sell} \ {Failed} :
            /\ \A i, j \in DOMAIN book.bids :
                 i < j => book.bids[i].price >= book.bids[j].price
            /\ \A i, j \in DOMAIN book.asks :
                 i < j => book.asks[i].price <= book.asks[j].price

----------------------------------------------------------------------------
(* C23 *)

\* C23: an opportunity the executor gate has dispatched is not expired when
\* it is dispatched: its age is at most 5 minutes.
C23_DispatchedNotExpired ==
    pc \in {"dispatch", "cleanup"} =>
        \A i \in dispatched :
            \A o \in book_entries :
                o.id = log[i].id => now - o.timestamp <= ExpiryMinutes

----------------------------------------------------------------------------
(* C21 *)

\* name() of the venues in ascending order.
NamesAscending == <<"binance", "uniswap">>

name_rank(x) == CHOOSE n \in 1..Len(NamesAscending) : NamesAscending[n] = x

BestAnswered(helper) ==
    pc = "answered" /\ log[1].e = helper /\ log[1].prices # << >>

\* C21: the best-ask helper returns a quote with minimal ask and the best-bid
\* helper a quote with maximal bid among the surviving quotes, and of several
\* venues that tie on that value the one whose name() is smallest is returned,
\* whatever the registry's iteration order.
C21_TiesByName ==
    /\ BestAnswered("find_best_buy_price") =>
         LET r == log[1].result.price
         IN  \A p \in Range(log[1].prices) :
                /\ r.ask <= p.ask
                /\ p.ask = r.ask => name_rank(r.exchange) <= name_rank(p.exchange)
    /\ BestAnswered("find_best_sell_price") =>
         LET r == log[1].result.price
         IN  \A p \in Range(log[1].prices) :
                /\ p.bid <= r.bid
                /\ p.bid = r.bid => name_rank(r.exchange) <= name_rank(p.exchange)

\* C21, as the code has it: the best-ask helper returns a surviving quote with
\* minimal ask, of several with that ask the one the registry iterates first;
\* the best-bid helper returns a surviving quote with maximal bid, of several
\* with that bid the one the registry iterates last; without a surviving quote
\* both return None.
C21_TiesByIterationOrder ==
    /\ BestAnswered("find_best_buy_price") =>
         /\ log[1].result.tag = "Some"
         /\ \E i \in 1..Len(log[1].prices) :
              /\ log[1].result.price = log[1].prices[i]
              /\ \A j \in 1..Len(log[1].prices) :
                    /\ log[1].prices[i].ask <= log[1].prices[j].ask
                    /\ log[1].prices[j].ask = log[1].prices[i].ask => i <= j
    /\ BestAnswered("find_best_sell_price") =>
         /\ log[1].result.tag = "Some"
         /\ \E i \in 1..Len(log[1].prices) :
              /\ log[1].result.price = log[1].prices[i]
              /\ \A j \in 1..Len(log[1].prices) :
                    /\ log[1].prices[j].bid <= log[1].prices[i].bid
                    /\ log[1].prices[j].bid = log[1].prices[i].bid => j <= i
    /\ (pc = "answered" /\ log[1].e # "get_all_prices" /\ log[1].prices = << >>) =>
         log[1].result = NoPrice

\* The best-ask helper has answered for two venues with the same ask, the
\* venue with the larger name first in the registry's order.
C21_Witness ==
    /\ BestAnswered("find_best_buy_price")
    /\ Len(log[1].prices) = 2
    /\ log[1].prices[1].ask = log[1].prices[2].ask
    /\ log[1].prices[1].exchange = "uniswap"
    /\ log[1].result.price.exchange = "uniswap"

----------------------------------------------------------------------------
(* C22 *)

\* C22: ticks of the scan loop never overlap, and the ticks missed while a
\* tick overran the interval are not made up by a burst: after the one tick
\* that starts right after the overrun, no tick starts for a deadline that
\* was already due when the tick before it started.
C22_NoOverlapNoBurst ==
    \A k \in 1..(Len(log) - 1) :
        /\ log[k].end >= log[k].start
        /\ log[k].end <= log[k + 1].start
        /\ log[k + 1].due > log[k].start

----------------------------------------------------------------------------
(* C24 *)

\* The keys the book of the running loop can hold.
LiveKeys ==
    {key_of([pair |-> pair, buy_exchange |-> b, sell_exchange |-> s]) :
        pair \in trading_pairs("uniswap"), b \in Exchanges, s \in Exchanges}

in_book(id) == \E o \in book_entries : o.id = id

\* Under key k the book holds no entry that is past the expiry age.
nothing_old_under(k) ==
    k \in DOMAIN active_opportunities =>
        now - active_opportunities[k].timestamp <= ExpiryMinutes

\* C24: while the loop keeps ticking with both venues enabled, every
\* opportunity that enters the book leaves it again, removed by the expire
\* phase or replaced under its key, and the loop stops ticking only when the
\* task has died.  An entry only leaves its key by being removed or
\* replaced, and an entry that stayed would be past the expiry age from some
\* minute on for ever; so: again and again, each key holds no entry past the
\* expiry age.
C24_EveryIdLeaves ==
    \A k \in LiveKeys : []<>(nothing_old_under(k) \/ pc = "panicked")

\* A tick has ended in which the gate dispatched an entry of the book and the
\* entry has left the book since.
C24_Witness ==
    /\ pc = "returned"
    /\ \E i \in dispatched : ~in_book(log[i].id)

====
